---- MODULE Spec2Model ----
(***************************************************************************)
(* Model of MCPPrompt (src/prompts/BasePrompt.ts): the promptDefinition    *)
(* getter and getMessages, i.e. the default merge over the argument        *)
(* schema, the optionality-aware zod validation schema, z.object().parse   *)
(* and the hand-over to generateMessages.                                  *)
(*                                                                         *)
(* JavaScript values are records [kind, val] of two strings: kind is the   *)
(* run-time type of the value, val its literal text.  Objects whose keys   *)
(* matter (the raw arguments, argsWithDefaults, the validated arguments)   *)
(* are functions from a set of keys to values, so that "key in obj" is     *)
(* key \in DOMAIN obj and a key holding undefined differs from a missing   *)
(* key, as it does in JavaScript.                                          *)
(***************************************************************************)
EXTENDS Integers, Sequences, FiniteSets, TLC

VARIABLES schema, pc, argsGiven, args, argsWithDefaults, issues,
          validatedArgs, invoked, definition, prevArgs, refeeds

vars == <<schema, pc, argsGiven, args, argsWithDefaults, issues,
          validatedArgs, invoked, definition, prevArgs, refeeds>>

(* ------------------------------ bounds --------------------------------- *)

\* How many times in a row a successful result is fed back as raw input.
MaxRefeeds == 2

\* Argument names a schema may declare (at most one field per name), and a
\* key a caller may send that no schema declares.
FieldNames == {"message", "count"}
UnknownKey == "extra"

(* --------------------------- JavaScript values ------------------------- *)

Val(k, v) == [kind |-> k, val |-> v]
Undefined == Val("undefined", "undefined")
Str(s)  == Val("string", s)
Num(n)  == Val("number", n)
Bool(b) == Val("boolean", b)
Arr(a)  == Val("array", a)
Obj(o)  == Val("object", o)

\* The object with no keys, {}.
EmptyObject == [k \in {} |-> Undefined]

\* Values a caller supplies: undefined, falsy and truthy values of each kind.
RawValues == {Undefined, Str(""), Str("custom message"), Num("0"), Num("100"),
              Bool("false"), Arr("[custom,tags]"), Obj("{custom:data}")}

(* ------------------------------ zod types ------------------------------ *)

BaseTypeNames == {"ZodString", "ZodBoolean", "ZodNumber", "ZodArray",
                  "ZodObject", "ZodRecord"}

ZodType(t, i) == [typeName |-> t, innerType |-> i]

\* z.string(), z.boolean(), z.number(), z.array(..), z.object(..),
\* z.record(..) and z.string().optional(), z.number().optional().
ZodTypes == {ZodType(t, "none") : t \in BaseTypeNames}
            \cup {ZodType("ZodOptional", i) : i \in {"ZodString", "ZodNumber"}}

\* The run-time kind of value a base zod type parses.
KindOf(typeName) ==
    CASE typeName = "ZodString"  -> "string"
      [] typeName = "ZodBoolean" -> "boolean"
      [] typeName = "ZodNumber"  -> "number"
      [] typeName = "ZodArray"   -> "array"
      [] typeName = "ZodObject"  -> "object"
      [] typeName = "ZodRecord"  -> "object"

\* type.safeParse(v).success for the declared type.
TypeAccepts(type, v) ==
    IF type.typeName = "ZodOptional"
    THEN v = Undefined \/ v.kind = KindOf(type.innerType)
    ELSE v.kind = KindOf(type.typeName)

\* zod's isOptional(): does the type itself accept undefined.
TypeIsOptional(type) == TypeAccepts(type, Undefined)

(* ------------------------------- schemas ------------------------------- *)

\* A default the TypeScript type of the schema admits for the type
\* (default?: T[K]): the values the test prompts declare.
TypedDefault(type) ==
    LET n == IF type.typeName = "ZodOptional" THEN type.innerType ELSE type.typeName
    IN  CASE n = "ZodString"  -> Str("default message")
          [] n = "ZodBoolean" -> Bool("true")
          [] n = "ZodNumber"  -> Num("42")
          [] n = "ZodArray"   -> Arr("[default,tag]")
          [] n = "ZodObject"  -> Obj("{key:value}")
          [] n = "ZodRecord"  -> Obj("{key:value}")

Description(name) == "Test " \o name

\* The entries of PromptArgumentSchema for one name: required is true,
\* false or not set, default is a value of the field's type or not set.
FieldSchemas(name) ==
    UNION { { [name |-> name, type |-> t, description |-> Description(name),
               required |-> r, default |-> d] :
                r \in {"true", "false", "unset"},
                d \in {Undefined, TypedDefault(t)} } : t \in ZodTypes }

\* The schemas a prompt may declare: an ordered mapping of at most one field
\* per name.
Schemas ==
    {<<>>}
    \cup UNION { {<<f>> : f \in FieldSchemas(n)} : n \in FieldNames }
    \cup UNION { {<<f, g>> : f \in FieldSchemas(n[1]), g \in FieldSchemas(n[2])} :
                    n \in {m \in FieldNames \X FieldNames : m[1] # m[2]} }

Names(sch) == {sch[i].name : i \in DOMAIN sch}

\* The argument objects a caller may send to a prompt: any subset of the
\* declared names, each with any value, and possibly an undeclared key.
RawInputs(sch) ==
    UNION { [S -> RawValues] : S \in SUBSET Names(sch) }
    \cup UNION { { (UnknownKey :> Str("custom message")) @@ a : a \in [S -> RawValues] } :
                    S \in SUBSET Names(sch) }

(* ---------------------------- promptDefinition -------------------------- *)

\* A slip: the default is forgotten, only the flag decides.
DefinitionRequiredFlagOnly(f) == f.required # "false"

\* schema.required !== false && schema.default === undefined
DefinitionRequired(f) == f.required # "false" /\ f.default = Undefined

\* Object.entries(this.schema).map(...): one descriptor per field, in order.
PromptDefinition(sch) ==
    [i \in DOMAIN sch |->
        [name |-> sch[i].name, description |-> sch[i].description,
         required |-> DefinitionRequired(sch[i])]]

(* ------------------------------ getMessages ----------------------------- *)

\* A slip: a truthiness test, !argsWithDefaults[key], in place of "in".
KeyTruthy(key, obj) ==
    /\ key \in DOMAIN obj
    /\ obj[key] \notin {Undefined, Str(""), Num("0"), Bool("false")}

\* key in argsWithDefaults
KeyIn(key, obj) == key \in DOMAIN obj

\* obj[key]: undefined when the key is missing.
Get(obj, key) == IF key \in DOMAIN obj THEN obj[key] ELSE Undefined

\* The typeName chain: the value synthesized for a required field without
\* an explicit default; undefined when no branch matches.
SensibleDefault(type) ==
    IF type.typeName = "ZodString" THEN Str("")
    ELSE IF type.typeName = "ZodBoolean" THEN Bool("false")
    ELSE IF type.typeName = "ZodNumber" THEN Num("0")
    ELSE IF type.typeName = "ZodArray" THEN Arr("[]")
    ELSE IF type.typeName = "ZodObject" THEN Obj("{}")
    ELSE Undefined

\* A slip: the branches swapped, the synthesized value tried first.
DefaultForSensibleFirst(f) ==
    IF f.required # "false" /\ SensibleDefault(f.type) # Undefined
    THEN SensibleDefault(f.type)
    ELSE f.default

\* The value the merge assigns to a missing key; undefined: no assignment.
DefaultFor(f) ==
    IF f.default # Undefined THEN f.default
    ELSE IF f.required # "false" THEN SensibleDefault(f.type)
    ELSE Undefined

\* One iteration of the loop over Object.entries(this.schema).
ApplyDefault(obj, f) ==
    IF ~KeyIn(f.name, obj) /\ DefaultFor(f) # Undefined
    THEN (f.name :> DefaultFor(f)) @@ obj
    ELSE obj

RECURSIVE ApplyDefaultsFrom(_, _, _)
ApplyDefaultsFrom(sch, i, obj) ==
    IF i > Len(sch) THEN obj
    ELSE ApplyDefaultsFrom(sch, i + 1, ApplyDefault(obj, sch[i]))

\* const argsWithDefaults = { ...args }; for (...) { ... }
ApplyDefaults(sch, a) == ApplyDefaultsFrom(sch, 1, a)

\* A slip: the required flag is forgotten.
IsOptionalNoFlag(f) == TypeIsOptional(f.type) \/ f.default # Undefined

\* A slip: !== in place of ===, so that a required field is made optional.
IsOptionalInverted(f) ==
    f.required # "false" \/ TypeIsOptional(f.type) \/ f.default # Undefined

\* schema.required === false || schema.type.isOptional?.()
\*   || schema.default !== undefined
IsOptional(f) ==
    f.required = "false" \/ TypeIsOptional(f.type) \/ f.default # Undefined

\* A slip: a field with a default is not checked (the default would catch).
FieldAcceptsDefaultCatches(f, v) ==
    \/ f.default # Undefined
    \/ TypeAccepts(f.type, v)
    \/ (v = Undefined /\ (f.required = "false" \/ TypeIsOptional(f.type)))

\* The field's validator, isOptional ? schema.type.optional() : schema.type,
\* applied to the field's value (undefined for a missing key).
FieldAccepts(f, v) ==
    IF IsOptional(f) THEN v = Undefined \/ TypeAccepts(f.type, v)
    ELSE TypeAccepts(f.type, v)

\* The fields zodSchema.parse reports an issue for (all of them, together).
ZodIssues(sch, obj) ==
    {sch[i].name : i \in {j \in DOMAIN sch : ~FieldAccepts(sch[j], Get(obj, sch[j].name))}}

\* A slip: the object schema passes unknown keys through.
ZodOutputPassthrough(sch, obj) == obj

\* A slip: every key of the shape is set, a missing one to null.
ZodOutputNullFill(sch, obj) ==
    [k \in {sch[i].name : i \in DOMAIN sch} |->
        IF k \in DOMAIN obj THEN obj[k] ELSE Val("null", "null")]

\* What zodSchema.parse returns on success: a new object holding the shape's
\* keys that the input holds; z.object strips the keys the shape lacks.
ZodOutput(sch, obj) == [k \in Names(sch) \cap DOMAIN obj |-> obj[k]]

(* ------------------------------- behaviour ------------------------------ *)

Init ==
    /\ schema \in Schemas
    /\ pc = "idle"
    /\ argsGiven = FALSE
    /\ args = EmptyObject
    /\ argsWithDefaults = EmptyObject
    /\ issues = {}
    /\ validatedArgs = EmptyObject
    /\ invoked = FALSE
    /\ definition = <<>>
    /\ prevArgs = EmptyObject
    /\ refeeds = 0

\* get promptDefinition()
GetPromptDefinition ==
    /\ pc = "idle"
    /\ pc' = "described"
    /\ definition' = PromptDefinition(schema)
    /\ UNCHANGED <<schema, argsGiven, args, argsWithDefaults, issues,
                   validatedArgs, invoked, prevArgs, refeeds>>

\* The body of getMessages on argument object a: merge, validate, and on
\* success call generateMessages(validatedArgs); parse throws otherwise.
Resolve(a) ==
    LET merged == ApplyDefaults(schema, a)
        found  == ZodIssues(schema, merged)
    IN  /\ args' = a
        /\ argsWithDefaults' = merged
        /\ issues' = found
        /\ IF found = {}
           THEN /\ validatedArgs' = ZodOutput(schema, merged)
                /\ invoked' = TRUE
                /\ pc' = "generated"
           ELSE /\ validatedArgs' = EmptyObject
                /\ invoked' = FALSE
                /\ pc' = "rejected"

\* getMessages(a)
GetMessages ==
    /\ pc = "idle"
    /\ \E a \in RawInputs(schema) : Resolve(a)
    /\ argsGiven' = TRUE
    /\ UNCHANGED <<schema, definition, prevArgs, refeeds>>

\* getMessages(): the parameter takes its default value, {}.
GetMessagesNoArgs ==
    /\ pc = "idle"
    /\ Resolve(EmptyObject)
    /\ argsGiven' = FALSE
    /\ UNCHANGED <<schema, definition, prevArgs, refeeds>>

\* getMessages(r), r the object the last call handed to generateMessages.
GetMessagesAgain ==
    /\ pc = "generated"
    /\ refeeds < MaxRefeeds
    /\ Resolve(validatedArgs)
    /\ prevArgs' = validatedArgs
    /\ refeeds' = refeeds + 1
    /\ argsGiven' = TRUE
    /\ UNCHANGED <<schema, definition>>

\* The call is over: its result goes to the caller, its locals are gone.
Return ==
    /\ pc # "idle"
    /\ pc' = "idle"
    /\ argsGiven' = FALSE
    /\ args' = EmptyObject
    /\ argsWithDefaults' = EmptyObject
    /\ issues' = {}
    /\ validatedArgs' = EmptyObject
    /\ invoked' = FALSE
    /\ definition' = <<>>
    /\ prevArgs' = EmptyObject
    /\ refeeds' = 0
    /\ UNCHANGED schema

Next ==
    \/ GetPromptDefinition
    \/ GetMessages
    \/ GetMessagesNoArgs
    \/ GetMessagesAgain
    \/ Return

Spec == Init /\ [][Next]_vars

(* ------------------------------ properties ------------------------------ *)

\* A getMessages call has run to its end (generateMessages or a throw).
Called == pc \in {"generated", "rejected"}

\* The field is not a key of the raw input of the call.
Unsupplied(f) == f.name \notin DOMAIN args

\* Effective optionality as the data model states it: required is
\* explicitly false, or a default is defined, or the declared type itself
\* allows absence.
EffectivelyOptional(f) ==
    f.required = "false" \/ f.default # Undefined \/ TypeAccepts(f.type, Undefined)

\* The sensible default the specification names for a type: by kind of
\* value, an empty mapping for object and record types alike.
SpecSensibleDefault(type) ==
    CASE KindOf(type.typeName) = "string"  -> Str("")
      [] KindOf(type.typeName) = "boolean" -> Bool("false")
      [] KindOf(type.typeName) = "number"  -> Num("0")
      [] KindOf(type.typeName) = "array"   -> Arr("[]")
      [] KindOf(type.typeName) = "object"  -> Obj("{}")

SynthesizedValues == {Str(""), Bool("false"), Num("0"), Arr("[]"), Obj("{}")}

\* C1: after any call, every field that is not a key of the raw input and
\* has an explicit default D holds exactly D in the merged object, and
\* generateMessages, when it is reached, receives exactly D for it,
\* whatever the field's type and required flag.
C1_DefaultPrecedence ==
    Called =>
        \A i \in DOMAIN schema :
            (Unsupplied(schema[i]) /\ schema[i].default # Undefined) =>
                /\ Get(argsWithDefaults, schema[i].name) = schema[i].default
                /\ invoked =>
                      /\ schema[i].name \in DOMAIN validatedArgs
                      /\ validatedArgs[schema[i].name] = schema[i].default

\* A call without arguments reached generateMessages with the explicit
\* default of a field marked required: true whose type has a synthesized
\* value too.
C1_Witness ==
    /\ pc = "generated" /\ ~argsGiven
    /\ \E i \in DOMAIN schema :
          /\ schema[i].required = "true"
          /\ schema[i].type.typeName = "ZodString"
          /\ schema[i].default = Str("default message")
          /\ validatedArgs[schema[i].name] = Str("default message")

\* C2: every key of the raw input keeps exactly its supplied value through
\* the merge (and through validation, for a declared field), falsy and
\* undefined values included; a field that is not supplied holds its
\* explicit default, or else is missing or holds a synthesized value.
C2_SuppliedKept ==
    Called =>
        /\ \A k \in DOMAIN args :
              k \in DOMAIN argsWithDefaults /\ argsWithDefaults[k] = args[k]
        /\ invoked =>
              \A k \in DOMAIN args \cap Names(schema) :
                  k \in DOMAIN validatedArgs /\ validatedArgs[k] = args[k]
        /\ \A i \in DOMAIN schema :
              Unsupplied(schema[i]) =>
                  IF schema[i].default # Undefined
                  THEN Get(argsWithDefaults, schema[i].name) = schema[i].default
                  ELSE \/ schema[i].name \notin DOMAIN argsWithDefaults
                       \/ argsWithDefaults[schema[i].name] \in SynthesizedValues

\* A partial input: one field supplied with a falsy value although it has
\* a default, the other field filled in by the merge.
C2_Witness ==
    /\ pc = "generated"
    /\ \E i \in DOMAIN schema : \E j \in DOMAIN schema :
          /\ schema[i].name \in DOMAIN args
          /\ args[schema[i].name] \in {Str(""), Num("0"), Bool("false")}
          /\ schema[i].default # Undefined
          /\ validatedArgs[schema[i].name] = args[schema[i].name]
          /\ Unsupplied(schema[j])
          /\ schema[j].name \in DOMAIN validatedArgs

\* C3: every field that is absent from the raw input, has no explicit
\* default, is not marked required === false and whose type is not itself
\* optional gets the sensible default of its type (empty string, false, 0,
\* empty sequence, empty mapping for object and record types), and the call
\* does not fail for that field.
C3_SensibleDefaultSynthesis ==
    Called =>
        \A i \in DOMAIN schema :
            ( /\ Unsupplied(schema[i])
              /\ schema[i].default = Undefined
              /\ schema[i].required # "false"
              /\ ~TypeAccepts(schema[i].type, Undefined) ) =>
                /\ Get(argsWithDefaults, schema[i].name)
                      = SpecSensibleDefault(schema[i].type)
                /\ schema[i].name \notin issues

\* C4: a field that is absent from the raw input, has no explicit default
\* and is marked required === false or has a type that is itself optional
\* gets no value (it is missing from the merged object and from the object
\* given to generateMessages), and validation raises no issue for it.
C4_OptionalStaysAbsent ==
    Called =>
        \A i \in DOMAIN schema :
            ( /\ Unsupplied(schema[i])
              /\ schema[i].default = Undefined
              /\ (schema[i].required = "false"
                    \/ TypeAccepts(schema[i].type, Undefined)) ) =>
                /\ schema[i].name \notin DOMAIN argsWithDefaults
                /\ schema[i].name \notin issues
                /\ invoked => schema[i].name \notin DOMAIN validatedArgs

\* A successful call that left out both a required: false string field and
\* a field optional by its type alone.
C4_Witness ==
    /\ pc = "generated"
    /\ \E i \in DOMAIN schema : \E j \in DOMAIN schema :
          /\ schema[i].required = "false"
          /\ schema[i].type.typeName = "ZodString"
          /\ schema[i].default = Undefined
          /\ Unsupplied(schema[i])
          /\ schema[j].required = "unset"
          /\ schema[j].type.typeName = "ZodOptional"
          /\ schema[j].default = Undefined
          /\ Unsupplied(schema[j])
          /\ validatedArgs = EmptyObject

C6_Definition ==
    pc = "described" =>
        /\ DOMAIN definition = DOMAIN schema
        /\ \A i \in DOMAIN schema :
              /\ DOMAIN definition[i] = {"name", "description", "required"}
              /\ definition[i].name = schema[i].name
              /\ definition[i].description = schema[i].description
              /\ definition[i].required
                    = (schema[i].default = Undefined /\ schema[i].required # "false")

\* A two-field definition with a required: true field that carries a
\* default and is reported as not required.
C6_Witness ==
    /\ pc = "described"
    /\ Len(definition) = 2
    /\ definition[1].name = "count"
    /\ \E i \in DOMAIN schema :
          /\ schema[i].required = "true"
          /\ schema[i].default # Undefined
          /\ definition[i].required = FALSE

\* C7: promptDefinition reports required = false for a field if and only
\* if the validation of getMessages accepts the field's absence.
C7_DescribeMatchesValidation ==
    pc = "described" =>
        \A i \in DOMAIN schema :
            (definition[i].required = FALSE) <=> FieldAccepts(schema[i], Undefined)

\* C8, as claimed: when every field of a schema (that declares fields) is
\* supplied and validation succeeds, the object passed to generateMessages
\* equals the supplied object.
C8_FullInputPassedAsIs ==
    ( /\ pc = "generated"
      /\ Names(schema) # {}
      /\ Names(schema) \subseteq DOMAIN args ) =>
        validatedArgs = args

\* C8, amended: when every schema field is supplied, the merge changes
\* nothing, and on success the object passed to generateMessages is the
\* supplied object restricted to the schema's fields.
C8_FullInputRestricted ==
    (Called /\ Names(schema) \subseteq DOMAIN args) =>
        /\ argsWithDefaults = args
        /\ invoked => validatedArgs = [k \in Names(schema) |-> args[k]]

\* A full input for a two-field schema with a default, sent with an
\* undeclared key besides.
C8_Witness ==
    /\ pc = "generated"
    /\ Len(schema) = 2
    /\ DOMAIN args = Names(schema) \cup {UnknownKey}
    /\ \E i \in DOMAIN schema :
          /\ schema[i].default # Undefined
          /\ validatedArgs[schema[i].name] # schema[i].default

\* C9: feeding the object a successful call handed to generateMessages
\* back in as raw input succeeds and hands over the same object.
C9_Idempotent ==
    refeeds > 0 => (pc = "generated" /\ validatedArgs = prevArgs)

\* A result that holds a default for one field and lacks the other,
\* optional field was fed back in.
C9_Witness ==
    /\ refeeds = 1
    /\ pc = "generated"
    /\ \E i \in DOMAIN schema : \E j \in DOMAIN schema :
          /\ schema[i].default # Undefined
          /\ Get(prevArgs, schema[i].name) = schema[i].default
          /\ schema[j].name \notin DOMAIN prevArgs

\* The types the merge synthesizes no value for.
NoSynthesizedValue(type) ==
    type.typeName \notin {"ZodString", "ZodBoolean", "ZodNumber", "ZodArray", "ZodObject"}

\* An effectively required field that the input lacks and the merge cannot
\* fill makes the call fail.
RequiredGapFails ==
    \A i \in DOMAIN schema :
        ( /\ ~EffectivelyOptional(schema[i])
          /\ Unsupplied(schema[i])
          /\ NoSynthesizedValue(schema[i].type) ) =>
            (pc = "rejected" /\ ~invoked /\ schema[i].name \in issues)

\* C10, as claimed: when generateMessages is reached, every effectively
\* required field is present and conforms to its declared type, and every
\* effectively optional field is absent or conforms to its declared type;
\* an effectively required field that is absent from the input and has no
\* synthesized default makes the call fail.
C10_ResultGuarantee ==
    Called =>
        /\ invoked =>
              \A i \in DOMAIN schema :
                  IF EffectivelyOptional(schema[i])
                  THEN \/ schema[i].name \notin DOMAIN validatedArgs
                       \/ TypeAccepts(schema[i].type, validatedArgs[schema[i].name])
                  ELSE /\ schema[i].name \in DOMAIN validatedArgs
                       /\ TypeAccepts(schema[i].type, validatedArgs[schema[i].name])
        /\ RequiredGapFails

\* C10, amended: as claimed, except that an effectively optional field may
\* also be present with the value undefined (when the raw input supplied
\* undefined for it).
C10_ResultGuaranteeUndefined ==
    Called =>
        /\ invoked =>
              \A i \in DOMAIN schema :
                  IF EffectivelyOptional(schema[i])
                  THEN \/ schema[i].name \notin DOMAIN validatedArgs
                       \/ validatedArgs[schema[i].name] = Undefined
                       \/ TypeAccepts(schema[i].type, validatedArgs[schema[i].name])
                  ELSE /\ schema[i].name \in DOMAIN validatedArgs
                       /\ TypeAccepts(schema[i].type, validatedArgs[schema[i].name])
        /\ RequiredGapFails

\* generateMessages was reached with a synthesized value for a required
\* field and an explicit undefined for a field that has a default.
C10_Witness ==
    /\ pc = "generated"
    /\ \E i \in DOMAIN schema : \E j \in DOMAIN schema :
          /\ ~EffectivelyOptional(schema[i])
          /\ Unsupplied(schema[i])
          /\ schema[i].name \in DOMAIN validatedArgs
          /\ schema[j].default # Undefined
          /\ schema[j].name \in DOMAIN validatedArgs
          /\ validatedArgs[schema[j].name] = Undefined

====
